---- MODULE Spec2Model ----
(***************************************************************************)
(* The offline task store of TaskManager/src/hooks/useTasks.tsx: the       *)
(* useTasks hook with its two localStorage keys, its React state, the      *)
(* remote tasks table it talks to through supabase, and the asynchronous   *)
(* handlers fetchTasks, createTask, updateTask, deleteTask and syncTasks.  *)
(* Every handler is cut at its awaits: the part before the await is one    *)
(* step, the remote table answering the request is one step, and the code  *)
(* after the await is one step.  A user is signed in throughout.           *)
(***************************************************************************)
EXTENDS Integers, Sequences, FiniteSets, TLC

\* ---------------------------------------------------------------- bounds
MaxTasks == 2       \* createTask calls in one behaviour
MaxEdits == 2       \* updateTask and deleteTask calls that find their task
MaxServer == 2      \* rows the remote table can hold
MaxClock == 2       \* last reading of the wall clock
MaxInFlight == 1    \* handlers awaiting the network at the same time

\* ---------------------------------------------------------------- bounds
\* of the behaviours with two handlers awaiting the network at once
ConcTasks == 1      \* createTask calls
ConcEdits == 1      \* updateTask and deleteTask calls that find their task
ConcInFlight == 2   \* handlers awaiting the network at the same time

\* ---------------------------------------------------------------- values
NoId == 0                   \* null server_id / no id
NoTime == 0                 \* null timestamp
NoIndex == 0                \* findIndex's -1 (sequences are 1-based)
ServerIdBase == 100         \* ids of gen_random_uuid(), apart from crypto.randomUUID()
NoDesc == "null"            \* null description
Titles == {"A"}             \* titles typed into CreateTaskForm
Descriptions == {"d"}       \* texts typed into its description box

\* updateTask's `updates` as TaskItem's handleSave builds them: the task
\* retitled, the description box as it stands.
Updates == {[title |-> "B", description |-> "d"]}

VARIABLES
    store,              \* localStorage[STORAGE_KEY]: sequence of LocalTask
    lastSyncKey,        \* localStorage[LAST_SYNC_KEY]
    tasks,              \* React state: the listing
    loading,            \* React state
    isOnline,           \* React state, follows the online/offline events
    pendingSyncCount,   \* React state
    lastSyncTime,       \* React state
    server,             \* public.tasks, rows in insertion order
    now,                \* the wall clock
    created,            \* number of ids crypto.randomUUID() has handed out
    edits,              \* number of updateTask and deleteTask calls that found their task
    procs,              \* handlers suspended at an await
    limit,              \* the bounds of this behaviour, fixed by the initial state
    pushPass            \* history of push passes against the steps of createTask,
                        \* updateTask and deleteTask:
                        \*   "written"  a pass has saved its batch, no such step since
                        \*   "done"     that pass has finished, no such step since the save
                        \*   "late"     a pass has finished, no such step since it
                        \*              finished, but one between its save and its end
                        \*   "none"     otherwise

vars == <<store, lastSyncKey, tasks, loading, isOnline, pendingSyncCount,
          lastSyncTime, server, now, created, edits, procs, limit, pushPass>>

\* ---------------------------------------------------------------- helpers
Range(s) == {s[i] : i \in 1..Len(s)}

Reverse(s) == [i \in 1..Len(s) |-> s[Len(s) + 1 - i]]

RECURSIVE Filter(_, _)
Filter(s, keep) ==
    IF s = <<>> THEN <<>>
    ELSE (IF keep[1] THEN <<Head(s)>> ELSE <<>>)
             \o Filter(Tail(s), Tail(keep))

\* {...a, ...b}: b's fields over a's
Spread(a, b) ==
    [f \in DOMAIN a \cup DOMAIN b |-> IF f \in DOMAIN b THEN b[f] ELSE a[f]]

\* The Task view of a LocalTask (interface Task, sync_status aside)
TaskFields ==
    {"id", "title", "description", "completed", "created_at", "updated_at",
     "is_deleted", "server_id", "last_synced_at"}

AsTask(t) == [f \in TaskFields |-> t[f]]

\* localTasks.findIndex(t => t.id === id || t.server_id === id)
FindIndex(lt, id) ==
    LET hits == {i \in 1..Len(lt) : lt[i].id = id \/ lt[i].server_id = id}
    IN  IF hits = {} THEN NoIndex
        ELSE CHOOSE i \in hits : \A j \in hits : i <= j

\* localTasks.findIndex(t => t.id === task.id)
FindIndexById(lt, id) ==
    LET hits == {i \in 1..Len(lt) : lt[i].id = id}
    IN  IF hits = {} THEN NoIndex
        ELSE CHOOSE i \in hits : \A j \in hits : i <= j

\* saveLocalTasks: the count it hands to setPendingSyncCount
PendingCount(lt) ==
    Cardinality({i \in 1..Len(lt) :
                    lt[i].sync_status = "pending" /\ ~lt[i].is_deleted})

\* loadLocalTasks
loadLocalTasks == store

\* ---------------------------------------------------------------- remote table
\* SelectRows without .eq('is_deleted', false).
SelectRows_All ==
    Reverse(server)

\* select('*').eq('is_deleted', false).order('created_at', desc): rows are
\* inserted with created_at = now(), so newest first is insertion order reversed.
SelectRows ==
    Reverse(Filter(server, [i \in 1..Len(server) |-> ~server[i].is_deleted]))

\* A row as INSERT makes it: the defaults of CREATE TABLE public.tasks
NewRow(payload) ==
    [id |-> ServerIdBase + Len(server) + 1,
     title |-> payload.title,
     description |-> payload.description,
     completed |-> IF "completed" \in DOMAIN payload THEN payload.completed ELSE FALSE,
     created_at |-> now,
     updated_at |-> now,
     is_deleted |-> FALSE,
     server_id |-> NoId,
     last_synced_at |-> NoTime]

\* update(fields).eq('id', id), with the update_tasks_updated_at trigger
UpdateRows(id, fields) ==
    [i \in 1..Len(server) |->
        IF server[i].id = id
        THEN Spread(server[i], Spread(fields, [updated_at |-> now]))
        ELSE server[i]]

\* ---------------------------------------------------------------- processes
NoCall == [op |-> "none"]
NoResp == [out |-> "none"]

\* A handler suspended at `await supabase...`: its locals and the request.
\*   lt    localTasks, the snapshot the handler loaded and mutates
\*   ref   createTask: newTask.id; updateTask, deleteTask: taskIndex
\*   pend  syncTasks: pendingTasks, as indices into lt (filter keeps the
\*         same objects, so a write through localTasks[index] shows in them)
\*   i     syncTasks: position of the for loop in pendingTasks
Proc(kind, stage, lt, ref, pend, i, nOk, nErr, call) ==
    [kind |-> kind, stage |-> stage, pc |-> "req", lt |-> lt, ref |-> ref,
     pend |-> pend, i |-> i, syncedCount |-> nOk, errorCount |-> nErr,
     call |-> call, resp |-> NoResp]

FetchProc == Proc("fetch", "pull", <<>>, NoIndex, <<>>, 0, 0, 0, [op |-> "select"])

CanAwait == Cardinality(procs) < limit.inflight

Waiting(op) == {p \in procs : p.pc = "req" /\ p.call.op = op}

Answered(kind, stage) ==
    {p \in procs : p.pc = "resp" /\ p.kind = kind /\ p.stage = stage}

Answer(p, out, data) ==
    (procs \ {p}) \cup {[p EXCEPT !.pc = "resp", !.call = NoCall,
                                  !.resp = [out |-> out, data |-> data]]}

\* ---------------------------------------------------------------- initial state
\* The hook has just mounted in a fresh browser: empty localStorage, the
\* mount effect has called fetchTasks, which is at its await.
Fresh ==
    /\ store = <<>>
    /\ lastSyncKey = NoTime
    /\ tasks = <<>>
    /\ loading = TRUE
    /\ isOnline \in BOOLEAN
    /\ pendingSyncCount = 0
    /\ lastSyncTime = NoTime
    /\ server = <<>>
    /\ now = 1
    /\ created = 0
    /\ edits = 0
    /\ procs = {FetchProc}

Bounds ==
    [tasks |-> MaxTasks, edits |-> MaxEdits, server |-> MaxServer,
     clock |-> MaxClock, inflight |-> MaxInFlight]

Init == Fresh /\ limit = Bounds /\ pushPass = "none"

\* ---------------------------------------------------------------- environment
Tick ==
    /\ now < limit.clock
    /\ now' = now + 1
    /\ UNCHANGED <<store, lastSyncKey, tasks, loading, isOnline, pendingSyncCount,
                   lastSyncTime, server, created, edits, procs, limit, pushPass>>

\* The remote table answers a select.
GatewaySelect ==
    \E p \in Waiting("select") :
        /\ isOnline
        /\ procs' = Answer(p, "ok", SelectRows)
        /\ UNCHANGED <<store, lastSyncKey, tasks, loading, isOnline,
                       pendingSyncCount, lastSyncTime, server, now, created, edits, limit, pushPass>>

\* The remote table answers an insert.
GatewayInsert ==
    \E p \in Waiting("insert") :
        /\ isOnline
        /\ Len(server) < limit.server
        /\ server' = Append(server, NewRow(p.call.fields))
        /\ procs' = Answer(p, "ok", NewRow(p.call.fields).id)
        /\ UNCHANGED <<store, lastSyncKey, tasks, loading, isOnline,
                       pendingSyncCount, lastSyncTime, now, created, edits, limit, pushPass>>

\* The remote table answers an update; a filter that matches no row is no error.
GatewayUpdate ==
    \E p \in Waiting("update") :
        /\ isOnline
        /\ server' = UpdateRows(p.call.id, p.call.fields)
        /\ procs' = Answer(p, "ok", NoId)
        /\ UNCHANGED <<store, lastSyncKey, tasks, loading, isOnline,
                       pendingSyncCount, lastSyncTime, now, created, edits, limit, pushPass>>

\* A request fails and nothing reaches the table: supabase resolves with
\* {data: null, error} ("error"), or the awaited promise rejects ("throw").
\* Every handler but syncTasks rethrows the error it is handed (`if (error)
\* throw error`), so only in syncTasks do the two differ.
GatewayFail ==
    \E p \in {q \in procs : q.pc = "req"}, out \in {"error", "throw"} :
        /\ out = "throw" => (p.kind = "sync" /\ p.stage = "push")
        /\ procs' = Answer(p, out, NoId)
        /\ UNCHANGED <<store, lastSyncKey, tasks, loading, isOnline,
                       pendingSyncCount, lastSyncTime, server, now, created, edits, limit, pushPass>>

\* ---------------------------------------------------------------- fetchTasks
\* Listed without the filter on is_deleted.
Listed_All(lt) ==
    [k \in 1..Len(lt) |-> AsTask(lt[k])]

\* localTasks.filter(t => !t.is_deleted).map(t => ({...t, user_id}))
Listed(lt) ==
    LET shown == Filter(lt, [k \in 1..Len(lt) |-> ~lt[k].is_deleted])
    IN  [k \in 1..Len(shown) |-> AsTask(shown[k])]

\* (data || []).map(task => ({...task, sync_status: 'synced'}))
FromServer(data) ==
    [k \in 1..Len(data) |-> Spread(data[k], [sync_status |-> "synced"])]

\* FetchResult with the last-sync time stamped in the catch block as well.
FetchResult_AlwaysStamp(resp) ==
    IF resp.out = "ok"
    THEN /\ tasks' = resp.data
         /\ store' = FromServer(resp.data)
         /\ pendingSyncCount' = PendingCount(FromServer(resp.data))
         /\ lastSyncTime' = now
         /\ lastSyncKey' = now
         /\ loading' = FALSE
    ELSE /\ tasks' = Listed(loadLocalTasks)
         /\ loading' = FALSE
         /\ lastSyncTime' = now
         /\ lastSyncKey' = now
         /\ UNCHANGED <<store, pendingSyncCount>>

\* The code after fetchTasks' await: the try block with the rows of an
\* answer, the catch block with a failure; finally in both.
FetchResult(resp) ==
    IF resp.out = "ok"
    THEN /\ tasks' = resp.data
         /\ store' = FromServer(resp.data)
         /\ pendingSyncCount' = PendingCount(FromServer(resp.data))
         /\ lastSyncTime' = now
         /\ lastSyncKey' = now
         /\ loading' = FALSE
    ELSE /\ tasks' = Listed(loadLocalTasks)
         /\ loading' = FALSE
         /\ UNCHANGED <<store, pendingSyncCount, lastSyncTime, lastSyncKey>>

FetchDone ==
    \E p \in Answered("fetch", "pull") :
        /\ FetchResult(p.resp)
        /\ procs' = procs \ {p}
        /\ UNCHANGED <<isOnline, server, now, created, edits, limit, pushPass>>

\* The postgres_changes callback: setTimeout(() => fetchTasks(), 0).  Events
\* come at least once and with any delay once the table has changed.
ChangeNotification ==
    /\ server # <<>>
    /\ CanAwait
    /\ procs' = procs \cup {FetchProc}
    /\ UNCHANGED <<store, lastSyncKey, tasks, loading, isOnline, pendingSyncCount,
                   lastSyncTime, server, now, created, edits, limit, pushPass>>

\* ---------------------------------------------------------------- createTask
\* newTask with the id taken from a constant, not from crypto.randomUUID().
newTask_FixedId(title, description) ==
    [id |-> 1,
     title |-> title,
     description |-> IF description = "" THEN NoDesc ELSE description,
     completed |-> FALSE,
     created_at |-> now,
     updated_at |-> now,
     is_deleted |-> FALSE,
     server_id |-> NoId,
     last_synced_at |-> NoTime,
     sync_status |-> "pending"]

newTask(title, description) ==
    [id |-> created + 1,
     title |-> title,
     description |-> IF description = "" THEN NoDesc ELSE description,
     completed |-> FALSE,
     created_at |-> now,
     updated_at |-> now,
     is_deleted |-> FALSE,
     server_id |-> NoId,
     last_synced_at |-> NoTime,
     sync_status |-> "pending"]

createTask(title, description) ==
        LET nt == newTask(title, description)
            localTasks == Append(loadLocalTasks, nt)
        IN  /\ created < limit.tasks
            /\ isOnline => CanAwait
            /\ created' = created + 1
            /\ store' = localTasks
            /\ pendingSyncCount' = PendingCount(localTasks)
            /\ tasks' = <<AsTask(nt)>> \o tasks
            /\ procs' = IF isOnline
                        THEN procs \cup
                             {Proc("create", "call", localTasks, nt.id, <<>>, 0, 0, 0,
                                   [op |-> "insert",
                                    fields |-> [title |-> title,
                                                description |-> description]])}
                        ELSE procs
            /\ pushPass' = "none"
            /\ UNCHANGED <<lastSyncKey, loading, isOnline, lastSyncTime, server,
                           now, edits, limit>>

CreateTask ==
    \E title \in Titles, description \in Descriptions :
        createTask(title, description)

\* After createTask's await: the insert's row id goes into the snapshot.
\* CreateDone with a catch block that takes the new record back out of the
\* store.
CreateDone_Rollback ==
    \E p \in Answered("create", "call") :
        /\ IF p.resp.out = "ok"
           THEN LET updatedLocalTasks ==
                        [k \in 1..Len(p.lt) |->
                            IF p.lt[k].id = p.ref
                            THEN Spread(p.lt[k], [server_id |-> p.resp.data,
                                                  sync_status |-> "synced",
                                                  last_synced_at |-> now])
                            ELSE p.lt[k]]
                IN  /\ store' = updatedLocalTasks
                    /\ pendingSyncCount' = PendingCount(updatedLocalTasks)
           ELSE LET rolledBack ==
                        Filter(p.lt, [k \in 1..Len(p.lt) |-> p.lt[k].id # p.ref])
                IN  /\ store' = rolledBack
                    /\ pendingSyncCount' = PendingCount(rolledBack)
        /\ procs' = procs \ {p}
        /\ pushPass' = "none"
        /\ UNCHANGED <<lastSyncKey, tasks, loading, isOnline, lastSyncTime, server,
                       now, created, edits, limit>>

CreateDone ==
    \E p \in Answered("create", "call") :
        /\ IF p.resp.out = "ok"
           THEN LET updatedLocalTasks ==
                        [k \in 1..Len(p.lt) |->
                            IF p.lt[k].id = p.ref
                            THEN Spread(p.lt[k], [server_id |-> p.resp.data,
                                                  sync_status |-> "synced",
                                                  last_synced_at |-> now])
                            ELSE p.lt[k]]
                IN  /\ store' = updatedLocalTasks
                    /\ pendingSyncCount' = PendingCount(updatedLocalTasks)
           ELSE UNCHANGED <<store, pendingSyncCount>>
        /\ procs' = procs \ {p}
        /\ pushPass' = "none"
        /\ UNCHANGED <<lastSyncKey, tasks, loading, isOnline, lastSyncTime, server,
                       now, created, edits, limit>>

\* ---------------------------------------------------------------- updateTask
\* The ids a caller can hold: those createTask handed out and those listed.
KnownIds == (1..created) \cup {tasks[k].id : k \in 1..Len(tasks)}

updateTask(id, updates) ==
        LET localTasks == loadLocalTasks
            taskIndex == FindIndex(localTasks, id)
        IN  IF taskIndex = NoIndex
            THEN UNCHANGED <<store, lastSyncKey, tasks, loading, isOnline,
                            pendingSyncCount, lastSyncTime, server, now, created,
                            edits, procs, limit, pushPass>>
            ELSE LET updatedTask == Spread(Spread(localTasks[taskIndex], updates),
                                           [updated_at |-> now,
                                            sync_status |-> "pending"])
                     saved == [localTasks EXCEPT ![taskIndex] = updatedTask]
                     serverId == IF updatedTask.server_id # NoId
                                 THEN updatedTask.server_id ELSE id
                 IN  /\ edits < limit.edits
                     /\ edits' = edits + 1
                     /\ isOnline => CanAwait
                     /\ store' = saved
                     /\ pendingSyncCount' = PendingCount(saved)
                     /\ tasks' = [k \in 1..Len(tasks) |->
                                     IF tasks[k].id = id \/ tasks[k].server_id = id
                                     THEN Spread(tasks[k],
                                                 Spread(updates, [updated_at |-> now]))
                                     ELSE tasks[k]]
                     /\ procs' = IF isOnline
                                 THEN procs \cup
                                      {Proc("update", "call", saved, taskIndex, <<>>,
                                            0, 0, 0,
                                            [op |-> "update", id |-> serverId,
                                             fields |-> updates])}
                                 ELSE procs
                     /\ pushPass' = "none"
                     /\ UNCHANGED <<lastSyncKey, loading, isOnline, lastSyncTime,
                                    server, now, created, limit>>

UpdateTask == \E id \in KnownIds, updates \in Updates : updateTask(id, updates)

UpdateDone ==
    \E p \in Answered("update", "call") :
        /\ IF p.resp.out = "ok"
           THEN LET saved == [p.lt EXCEPT ![p.ref] =
                                 Spread(@, [sync_status |-> "synced",
                                            last_synced_at |-> now])]
                IN  /\ store' = saved
                    /\ pendingSyncCount' = PendingCount(saved)
           ELSE UNCHANGED <<store, pendingSyncCount>>
        /\ procs' = procs \ {p}
        /\ pushPass' = "none"
        /\ UNCHANGED <<lastSyncKey, tasks, loading, isOnline, lastSyncTime, server,
                       now, created, edits, limit>>

\* ---------------------------------------------------------------- deleteTask
deleteTask(id) ==
        LET localTasks == loadLocalTasks
            taskIndex == FindIndex(localTasks, id)
        IN  IF taskIndex = NoIndex
            THEN UNCHANGED <<store, lastSyncKey, tasks, loading, isOnline,
                            pendingSyncCount, lastSyncTime, server, now, created,
                            edits, procs, limit, pushPass>>
            ELSE LET saved == [localTasks EXCEPT ![taskIndex] =
                                  Spread(@, [is_deleted |-> TRUE,
                                             updated_at |-> now,
                                             sync_status |-> "pending"])]
                     serverId == IF saved[taskIndex].server_id # NoId
                                 THEN saved[taskIndex].server_id ELSE id
                 IN  /\ edits < limit.edits
                     /\ edits' = edits + 1
                     /\ isOnline => CanAwait
                     /\ store' = saved
                     /\ pendingSyncCount' = PendingCount(saved)
                     /\ tasks' = Filter(tasks, [k \in 1..Len(tasks) |->
                                            tasks[k].id # id /\ tasks[k].server_id # id])
                     /\ procs' = IF isOnline
                                 THEN procs \cup
                                      {Proc("delete", "call", saved, taskIndex, <<>>,
                                            0, 0, 0,
                                            [op |-> "update", id |-> serverId,
                                             fields |-> [is_deleted |-> TRUE]])}
                                 ELSE procs
                     /\ pushPass' = "none"
                     /\ UNCHANGED <<lastSyncKey, loading, isOnline, lastSyncTime,
                                    server, now, created, limit>>

DeleteTask == \E id \in KnownIds : deleteTask(id)

DeleteDone ==
    \E p \in Answered("delete", "call") :
        /\ IF p.resp.out = "ok"
           THEN LET filtered == Filter(p.lt, [k \in 1..Len(p.lt) |-> k # p.ref])
                IN  /\ store' = filtered
                    /\ pendingSyncCount' = PendingCount(filtered)
           ELSE UNCHANGED <<store, pendingSyncCount>>
        /\ procs' = procs \ {p}
        /\ pushPass' = "none"
        /\ UNCHANGED <<lastSyncKey, tasks, loading, isOnline, lastSyncTime, server,
                       now, created, edits, limit>>

\* ---------------------------------------------------------------- syncTasks
\* The pending records taken last first.
PendingIndices_Reversed(lt) ==
    LET idx == [k \in 1..Len(lt) |-> k]
    IN  Reverse(Filter(idx, [k \in 1..Len(lt) |-> lt[k].sync_status = "pending"]))

\* const pendingTasks = localTasks.filter(t => t.sync_status === 'pending')
PendingIndices(lt) ==
    LET idx == [k \in 1..Len(lt) |-> k]
    IN  Filter(idx, [k \in 1..Len(lt) |-> lt[k].sync_status = "pending"])

\* The request the loop body awaits for `task`, NoCall where it awaits nothing
\* (a deleted task without server_id).
SyncCall(task) ==
    IF task.is_deleted
    THEN IF task.server_id # NoId
         THEN [op |-> "update", id |-> task.server_id,
               fields |-> [is_deleted |-> TRUE]]
         ELSE NoCall
    ELSE IF task.server_id # NoId
         THEN [op |-> "update", id |-> task.server_id,
               fields |-> [title |-> task.title,
                           description |-> task.description,
                           completed |-> task.completed]]
         ELSE [op |-> "insert",
               fields |-> [title |-> task.title,
                           description |-> task.description,
                           completed |-> task.completed]]

\* The end of the try block: the record with task's id becomes synced.
MarkSynced(lt, id) ==
    LET index == FindIndexById(lt, id)
    IN  IF index = NoIndex THEN lt
        ELSE [lt EXCEPT ![index] = Spread(@, [sync_status |-> "synced",
                                              last_synced_at |-> now])]

\* MarkError with the catch block's write left out: the record stays pending.
MarkError_NoWrite(lt, id) == lt

\* The catch block: the record with task's id becomes error.
MarkError(lt, id) ==
    LET index == FindIndexById(lt, id)
    IN  IF index = NoIndex THEN lt
        ELSE [lt EXCEPT ![index] = Spread(@, [sync_status |-> "error"])]

\* if (data) localTasks[index].server_id = data.id
SetServerId(lt, id, data) ==
    LET index == FindIndexById(lt, id)
    IN  IF data = NoId \/ index = NoIndex THEN lt
        ELSE [lt EXCEPT ![index] = Spread(@, [server_id |-> data])]

\* The for loop from position i up to its next await: iterations that await
\* nothing run through.  i = Len(pend) + 1 when the loop has ended.
RECURSIVE SyncLoop(_, _, _, _)
SyncLoop(lt, pend, i, nOk) ==
    IF i > Len(pend) THEN [lt |-> lt, i |-> i, syncedCount |-> nOk]
    ELSE IF SyncCall(lt[pend[i]]) # NoCall
         THEN [lt |-> lt, i |-> i, syncedCount |-> nOk]
         ELSE SyncLoop(MarkSynced(lt, lt[pend[i]].id), pend, i + 1, nOk + 1)

\* SyncResume with `saveLocalTasks(localTasks)` left out before the closing
\* fetchTasks.
SyncResume_NoSave(q, lt, pend, i, nOk, nErr) ==
    LET at == SyncLoop(lt, pend, i, nOk)
    IN  IF at.i <= Len(pend)
        THEN /\ procs' = (procs \ q) \cup
                          {Proc("sync", "push", at.lt, NoIndex, pend, at.i,
                                at.syncedCount, nErr,
                                SyncCall(at.lt[pend[at.i]]))}
             /\ UNCHANGED <<store, pendingSyncCount, pushPass>>
        ELSE /\ UNCHANGED <<store, pendingSyncCount>>
             /\ pushPass' = "written"
             /\ procs' = (procs \ q) \cup
                          {Proc("sync", "pull", at.lt, NoIndex, pend, at.i,
                                at.syncedCount, nErr, [op |-> "select"])}

\* syncTasks from loop position i on: either suspended at the await of
\* pend[at.i], or past the loop, having saved, inside fetchTasks' await.
SyncResume(q, lt, pend, i, nOk, nErr) ==
    LET at == SyncLoop(lt, pend, i, nOk)
    IN  IF at.i <= Len(pend)
        THEN /\ procs' = (procs \ q) \cup
                          {Proc("sync", "push", at.lt, NoIndex, pend, at.i,
                                at.syncedCount, nErr,
                                SyncCall(at.lt[pend[at.i]]))}
             /\ UNCHANGED <<store, pendingSyncCount, pushPass>>
        ELSE /\ store' = at.lt
             /\ pendingSyncCount' = PendingCount(at.lt)
             /\ pushPass' = "written"
             /\ procs' = (procs \ q) \cup
                          {Proc("sync", "pull", at.lt, NoIndex, pend, at.i,
                                at.syncedCount, nErr, [op |-> "select"])}

\* syncTasks up to its first await (isOnline is the caller's).
SyncStart ==
    LET localTasks == loadLocalTasks
        pendingTasks == PendingIndices(localTasks)
    IN  IF pendingTasks = <<>>
        THEN UNCHANGED <<store, pendingSyncCount, procs, pushPass>>
        ELSE /\ CanAwait
             /\ SyncResume({}, localTasks, pendingTasks, 1, 0, 0)

\* SyncNow with syncTasks' `!isOnline` test left out.
SyncNow_Offline ==
    /\ SyncStart
    /\ UNCHANGED <<lastSyncKey, tasks, loading, isOnline, lastSyncTime, server,
                   now, created, edits, limit>>

\* The Sync Now button: onSync={syncTasks}
SyncNow ==
    /\ IF ~isOnline
       THEN UNCHANGED <<store, pendingSyncCount, procs, pushPass>>
       ELSE SyncStart
    /\ UNCHANGED <<lastSyncKey, tasks, loading, isOnline, lastSyncTime, server,
                   now, created, edits, limit>>

\* After the await of one record's request: try's tail or catch, then on.
SyncCallDone ==
    \E p \in Answered("sync", "push") :
        LET task == p.lt[p.pend[p.i]]
            wasInsert == SyncCall(task).op = "insert"
            after == IF p.resp.out = "throw"
                     THEN MarkError(p.lt, task.id)
                     ELSE MarkSynced(
                              IF wasInsert /\ p.resp.out = "ok"
                              THEN SetServerId(p.lt, task.id, p.resp.data)
                              ELSE p.lt,
                              task.id)
            nOk == IF p.resp.out = "throw" THEN p.syncedCount ELSE p.syncedCount + 1
            nErr == IF p.resp.out = "throw" THEN p.errorCount + 1 ELSE p.errorCount
        IN  /\ SyncResume({p}, after, p.pend, p.i + 1, nOk, nErr)
            /\ UNCHANGED <<lastSyncKey, tasks, loading, isOnline, lastSyncTime,
                           server, now, created, edits, limit>>

\* After `await fetchTasks()`: the pull's result; the two toasts show
\* syncedCount and errorCount.
SyncFetchDone ==
    \E p \in Answered("sync", "pull") :
        /\ FetchResult(p.resp)
        /\ procs' = procs \ {p}
        /\ pushPass' = IF pushPass = "written" THEN "done" ELSE "late"
        /\ UNCHANGED <<isOnline, server, now, created, edits, limit>>

\* ---------------------------------------------------------------- connectivity
\* handleOnline, then the auto-sync effect, which runs because isOnline changed.
GoOnline ==
    /\ ~isOnline
    /\ isOnline' = TRUE
    /\ IF pendingSyncCount > 0
       THEN SyncStart
       ELSE UNCHANGED <<store, pendingSyncCount, procs, pushPass>>
    /\ UNCHANGED <<lastSyncKey, tasks, loading, lastSyncTime, server, now, created, edits, limit>>

\* handleOffline; the effect runs and does nothing.
GoOffline ==
    /\ isOnline
    /\ isOnline' = FALSE
    /\ UNCHANGED <<store, lastSyncKey, tasks, loading, pendingSyncCount,
                   lastSyncTime, server, now, created, edits, procs, limit, pushPass>>

Next ==
    \/ Tick
    \/ GatewaySelect
    \/ GatewayInsert
    \/ GatewayUpdate
    \/ GatewayFail
    \/ FetchDone
    \/ ChangeNotification
    \/ CreateTask
    \/ CreateDone
    \/ UpdateTask
    \/ UpdateDone
    \/ DeleteTask
    \/ DeleteDone
    \/ SyncNow
    \/ SyncCallDone
    \/ SyncFetchDone
    \/ GoOnline
    \/ GoOffline

Spec == Init /\ [][Next]_vars

\* The same hook, observed over shorter behaviours in which a second handler
\* may start while one is awaiting the network.
ConcBounds ==
    [tasks |-> ConcTasks, edits |-> ConcEdits, server |-> MaxServer,
     clock |-> MaxClock, inflight |-> ConcInFlight]

InitConc == Fresh /\ limit = ConcBounds /\ pushPass = "none"

SpecConc == InitConc /\ [][Next]_vars

\* ================================================================ properties
Unsynced(r) == r.sync_status # "synced"

HasId(lt, id) == \E k \in 1..Len(lt) : lt[k].id = id

\* a and b are the same task with the same user data and sync state
SameRecord(a, b) ==
    /\ a.id = b.id
    /\ a.title = b.title
    /\ a.description = b.description
    /\ a.completed = b.completed
    /\ a.is_deleted = b.is_deleted
    /\ a.sync_status = b.sync_status

\* This step is the end of a pull pass of p (fetchTasks on its own or at the
\* end of syncTasks) whose select was answered.
PullOk(p) ==
    /\ p.pc = "resp" /\ p.stage = "pull" /\ p.resp.out = "ok"
    /\ procs' = procs \ {p}

\* This step is syncTasks taking the answer to the request of one record.
CallTaken(p) ==
    /\ p.kind = "sync" /\ p.stage = "push" /\ p.pc = "resp"
    /\ p \notin procs'

\* C1 (conflict dominance): every record that is pending or error when a pull
\* completes successfully is still in the local store afterwards, with its
\* title, description, completed, is_deleted and sync_status unchanged.
C1_ConflictDominance ==
    [][\A p \in procs :
          PullOk(p) =>
              \A k \in 1..Len(store) :
                  Unsynced(store[k]) =>
                      \E j \in 1..Len(store') : SameRecord(store[k], store'[j])]_vars

\* A push pass started now returns from syncTasks at its pendingTasks test,
\* before it issues a request or saves anything.
PushIsNoOp == PendingIndices(loadLocalTasks) = <<>>

\* C2 as claimed (push idempotence): once a push pass has finished, and as
\* long as no step of createTask, updateTask or deleteTask has run since it
\* finished, a second push pass issues no request and changes nothing.
C2_PushIdempotent_Claimed ==
    pushPass \in {"done", "late"} => PushIsNoOp

\* C2 as amended: once a push pass has finished, and as long as no step of
\* createTask, updateTask or deleteTask has run since that pass saved its
\* batch, a second push pass issues no request and changes nothing.
C2_PushIdempotent ==
    pushPass = "done" => PushIsNoOp

\* C2's case: a push pass that pushed a record to the table has finished
\* undisturbed, a record is in the local store, and Sync Now can be pressed.
C2_Witness ==
    /\ pushPass = "done" /\ isOnline /\ procs = {}
    /\ server # <<>> /\ store # <<>>

\* C3 (round trip): a task created offline is listed and stored as pending
\* when createTask returns; and when a push pass ends whose requests were all
\* answered (no failure counted, every pushed record given its row id, the
\* closing select answered), every record it pushed is in the local store
\* under its id with server_id set and sync_status synced.
C3_RoundTrip ==
    [][/\ \A title \in Titles, description \in Descriptions :
              (~isOnline /\ createTask(title, description)) =>
                  /\ \E j \in 1..Len(tasks') : tasks'[j].id = created + 1
                  /\ \E k \in 1..Len(store') :
                         /\ store'[k].id = created + 1
                         /\ store'[k].sync_status = "pending"
       /\ \A p \in procs :
              (/\ p.kind = "sync" /\ PullOk(p) /\ p.errorCount = 0
               /\ \A n \in 1..Len(p.pend) :
                      ~p.lt[p.pend[n]].is_deleted /\ p.lt[p.pend[n]].server_id # NoId)
              => \A n \in 1..Len(p.pend) :
                     \E k \in 1..Len(store') :
                         /\ store'[k].id = p.lt[p.pend[n]].id
                         /\ store'[k].server_id # NoId
                         /\ store'[k].sync_status = "synced"]_vars

\* C4 (deletion before ever syncing): deleteTask, called offline on a record
\* that was created here and never pushed, leaves no record with that id in
\* the local store; and no push pass awaits a request for a deleted record
\* that was never pushed.
C4_DeleteBeforeSync ==
    [][/\ \A id \in 1..created :
              LET taskIndex == FindIndex(store, id)
              IN  (/\ ~isOnline /\ deleteTask(id)
                   /\ taskIndex # NoIndex
                   /\ store[taskIndex].id = id
                   /\ store[taskIndex].server_id = NoId)
                  => ~HasId(store', id)
       /\ \A p \in procs' :
              (p.kind = "sync" /\ p.stage = "push" /\ p.pc = "req")
              => ~(p.lt[p.pend[p.i]].is_deleted /\ p.lt[p.pend[p.i]].server_id = NoId)
      ]_vars

\* C5 (partial batch failure): when a push pass takes the answer to one
\* record's request, a failed request leaves that record error and adds one to
\* the failed count, an answered one leaves it synced (with server_id set if
\* it was an insert) and the failed count as it was, and in both cases the
\* pass goes on to the next pending record or to its closing pull.
C5_PartialBatch ==
    [][\A p \in procs :
          CallTaken(p) =>
              \E q \in procs' :
                  LET k == p.pend[p.i]
                      wasInsert == SyncCall(p.lt[k]).op = "insert"
                  IN  /\ q.kind = "sync" /\ q.pend = p.pend /\ q.i > p.i
                      /\ IF p.resp.out = "ok"
                         THEN /\ q.lt[k].sync_status = "synced"
                              /\ wasInsert => q.lt[k].server_id # NoId
                              /\ q.errorCount = p.errorCount
                              /\ q.syncedCount > p.syncedCount
                         ELSE /\ q.lt[k].sync_status = "error"
                              /\ q.errorCount = p.errorCount + 1
                              /\ q.syncedCount >= p.syncedCount]_vars

\* C6 (offline net effect): while offline, createTask leaves the new record in
\* the local store, updateTask leaves the record with the given fields,
\* deleteTask leaves it gone or marked deleted, and after each of them
\* pendingSyncCount is the number of records in the local store whose
\* sync_status is not synced, deleted ones included.
C6_OfflineNetEffect ==
    [][~isOnline =>
          /\ \A title \in Titles, description \in Descriptions :
                 createTask(title, description) =>
                     \E k \in 1..Len(store') :
                         /\ store'[k].id = created + 1
                         /\ store'[k].title = title
                         /\ ~store'[k].is_deleted
          /\ \A id \in KnownIds, updates \in Updates :
                 (updateTask(id, updates) /\ FindIndex(store, id) # NoIndex) =>
                     \A f \in DOMAIN updates :
                         store'[FindIndex(store, id)][f] = updates[f]
          /\ \A id \in KnownIds :
                 (deleteTask(id) /\ FindIndex(store, id) # NoIndex) =>
                     \A k \in 1..Len(store') :
                         store'[k].id = store[FindIndex(store, id)].id
                             => store'[k].is_deleted
          /\ (CreateTask \/ UpdateTask \/ DeleteTask) =>
                 pendingSyncCount' =
                     Cardinality({k \in 1..Len(store') : Unsynced(store'[k])})]_vars

\* C7 (no duplicate remote records): the remote table never holds more rows
\* than the user has created tasks.
C7_NoDuplicateRemote ==
    Len(server) <= created

\* C8 (synced has server_id): every record of the local store whose
\* sync_status is synced has server_id set.
C8_SyncedHasServerId ==
    \A k \in 1..Len(store) :
        store[k].sync_status = "synced" => store[k].server_id # NoId

\* C9 (deleted stays hidden): no listed record is marked deleted, and a task
\* that the local store holds as deleted is not in the listing after any step,
\* neither under its id nor under its server_id.
C9_DeletedStaysHidden ==
    [][/\ \A j \in 1..Len(tasks') : ~tasks'[j].is_deleted
       /\ \A k \in 1..Len(store) :
              store[k].is_deleted =>
                  \A j \in 1..Len(tasks') :
                      /\ tasks'[j].id # store[k].id
                      /\ store[k].server_id # NoId
                             => tasks'[j].id # store[k].server_id]_vars

\* C10 (purge only after confirmation): a record with unsynced changes leaves
\* the local store only if the user deleted it and either it was never pushed
\* or its row in the remote table is marked deleted.
C10_PurgeOnlyConfirmed ==
    [][\A k \in 1..Len(store) :
          (Unsynced(store[k]) /\ ~HasId(store', store[k].id)) =>
              /\ store[k].is_deleted
              /\ \/ store[k].server_id = NoId /\ store[k].id \in 1..created
                 \/ \E r \in 1..Len(server') :
                        /\ server'[r].id \in {store[k].id, store[k].server_id}
                        /\ server'[r].is_deleted]_vars

C12_StableId ==
    [][\A p \in procs :
          PullOk(p) =>
              \A k \in 1..Len(store) :
                  (/\ store[k].id \in 1..created
                   /\ ~store[k].is_deleted
                   /\ \E r \in 1..Len(p.resp.data) :
                          p.resp.data[r].id = store[k].server_id)
                  => /\ HasId(store', store[k].id)
                     /\ \E j \in 1..Len(tasks') : tasks'[j].id = store[k].id]_vars

\* b is the record of the same task as a: it has a's id, or its id is the id
\* of a's row in the remote table.
SameTask(a, b) ==
    \/ b.id = a.id
    \/ a.server_id # NoId /\ b.id = a.server_id

\* C13 (updated_at never decreases): no step leaves a record of the local
\* store with an updated_at earlier than the one the same task's record had
\* before the step.
C13_UpdatedAtMonotone ==
    [][\A k \in 1..Len(store), j \in 1..Len(store') :
          SameTask(store[k], store'[j]) =>
              store'[j].updated_at >= store[k].updated_at]_vars

\* The fields a user edits.
UserFields == {"title", "description", "completed", "is_deleted"}

\* C14 (timestamp last-write-wins): when a pull ends whose answer holds the
\* row of a locally stored task, the two differ in a user field, and the local
\* record has the later updated_at, the record stored afterwards has the local
\* user fields; when the row has the later updated_at, it has the row's.
C14_LastWriteWins ==
    [][\A p \in procs :
          PullOk(p) =>
              \A k \in 1..Len(store), r \in 1..Len(p.resp.data) :
                  LET local == store[k]
                      row == p.resp.data[r]
                  IN  (/\ SameTask(local, row)
                       /\ \E f \in UserFields : local[f] # row[f]
                       /\ local.updated_at # row.updated_at)
                      => \E j \in 1..Len(store') :
                             /\ SameTask(local, store'[j])
                             /\ \A f \in UserFields :
                                    store'[j][f] =
                                        IF local.updated_at > row.updated_at
                                        THEN local[f] ELSE row[f]]_vars

\* This step is the code after the await of createTask, updateTask or
\* deleteTask (kind), run with a request that failed.
CallFailed(p, kind) ==
    /\ p.kind = kind /\ p.pc = "resp" /\ p.resp.out # "ok"
    /\ p \notin procs'

\* C15 (network errors never block local mutation): called online, createTask
\* stores the new record, updateTask the edited fields and deleteTask the
\* deletion mark, each as pending, before the request is awaited; and when the
\* request fails the handler ends and leaves the local store as it is, so
\* that a store that was as the handler saved it still holds the mutation,
\* not synced.
C15_FailureKeepsMutation ==
    [][/\ isOnline =>
              /\ \A title \in Titles, description \in Descriptions :
                     createTask(title, description) =>
                         \E k \in 1..Len(store') :
                             /\ store'[k].id = created + 1
                             /\ store'[k].title = title
                             /\ store'[k].sync_status = "pending"
              /\ \A id \in KnownIds, updates \in Updates :
                     LET taskIndex == FindIndex(store, id)
                     IN  (updateTask(id, updates) /\ taskIndex # NoIndex) =>
                             /\ \A f \in DOMAIN updates :
                                    store'[taskIndex][f] = updates[f]
                             /\ store'[taskIndex].sync_status = "pending"
              /\ \A id \in KnownIds :
                     LET taskIndex == FindIndex(store, id)
                     IN  (deleteTask(id) /\ taskIndex # NoIndex) =>
                             /\ store'[taskIndex].is_deleted
                             /\ store'[taskIndex].sync_status = "pending"
       /\ \A p \in procs :
              /\ CallFailed(p, "create") =>
                     /\ procs' = procs \ {p}
                     /\ store' = store
                     /\ store = p.lt =>
                            \E k \in 1..Len(store') :
                                /\ store'[k].id = p.ref
                                /\ Unsynced(store'[k])
              /\ (CallFailed(p, "update") \/ CallFailed(p, "delete")) =>
                     /\ procs' = procs \ {p}
                     /\ store' = store
                     /\ store = p.lt =>
                            /\ store'[p.ref] = p.lt[p.ref]
                            /\ Unsynced(store'[p.ref])]_vars

\* C15's case: online, with no handler awaiting anything, the local store
\* holds an edited record that is still pending: its request has failed.
C15_Witness ==
    /\ isOnline /\ procs = {}
    /\ \E k \in 1..Len(store) :
           /\ store[k].sync_status = "pending"
           /\ store[k].title = "B"
           /\ ~store[k].is_deleted

\* The reconciliation passes in flight: fetchTasks on its own (a pull) and
\* syncTasks (a push with its closing pull).
Passes == {p \in procs : p.kind \in {"fetch", "sync"}}

\* C16 (passes are serialized): at most one reconciliation pass is in flight.
C16_PassesSerialized ==
    Cardinality(Passes) <= 1

\* a and b are records of one id with the same user data
SameUserData(a, b) ==
    /\ a.id = b.id
    /\ \A f \in UserFields : a[f] = b[f]

\* This step is the code after an await of p that saves p's snapshot: the
\* online leg of createTask, updateTask or deleteTask, or the push loop.
WritesBack(p) ==
    /\ p.kind \in {"create", "update", "delete", "sync"}
    /\ p.stage \in {"call", "push"}
    /\ p.pc = "resp"
    /\ p \notin procs'

\* C17 (no lost update): when a handler that awaited the network saves its
\* snapshot, every record whose user data in the local store is not what
\* that snapshot holds (another call wrote it in the meantime) is in the
\* store afterwards with that user data; the record a deleteTask is purging
\* is left out.
C17_NoLostUpdate ==
    [][\A p \in procs :
          WritesBack(p) =>
              \A k \in 1..Len(store) :
                  (/\ \A m \in 1..Len(p.lt) : ~SameUserData(p.lt[m], store[k])
                   /\ ~(p.kind = "delete" /\ store[k].id = p.lt[p.ref].id))
                  => \E j \in 1..Len(store') :
                         SameUserData(store[k], store'[j])]_vars

\* The rows of the remote table that are the task of record r and not deleted.
LiveRows(r) ==
    {n \in 1..Len(server) :
        /\ server[n].id \in {r.id, r.server_id}
        /\ ~server[n].is_deleted}

\* C18 (an offline deletion reaches the server): a push pass that comes to a
\* pending record marked deleted whose task has a live row in the remote
\* table awaits a soft delete of that row; and when a push pass ends, no
\* record whose soft delete it got through (marked deleted here and there,
\* synced) is in the local store.
C18_OfflineDeleteReachesServer ==
    [][/\ \A p \in procs' :
              (p.kind = "sync" /\ p.stage = "push" /\ p.pc = "req") =>
                  \A n \in 1..Len(p.pend) :
                      LET r == p.lt[p.pend[n]]
                      IN  (n < p.i /\ r.is_deleted) =>
                              \A row \in LiveRows(r) :
                                  /\ SyncCall(r).op = "update"
                                  /\ SyncCall(r).id = server[row].id
       /\ \A p \in procs :
              (p.kind = "sync" /\ p.stage = "pull" /\ p.pc = "resp"
               /\ p \notin procs') =>
                  \A n \in 1..Len(p.pend) :
                      LET r == p.lt[p.pend[n]]
                      IN  (/\ r.is_deleted /\ r.sync_status = "synced"
                           /\ \E row \in 1..Len(server) :
                                  /\ server[row].id = r.server_id
                                  /\ server[row].is_deleted)
                          => ~HasId(store', r.id)]_vars

\* This step starts a push pass that takes in record k of the local store.
PassTakesIn(k) ==
    \E p \in procs' \ procs :
        /\ p.kind = "sync"
        /\ \E n \in 1..Len(p.pend) : p.pend[n] = k

\* C19 (failed pushes are retried): a push pass triggered by Sync Now or by
\* the browser going online takes in every record of the local store whose
\* sync_status is error.
C19_ErrorRetried ==
    [][((SyncNow /\ isOnline) \/ GoOnline) =>
          \A k \in 1..Len(store) :
              store[k].sync_status = "error" => PassTakesIn(k)]_vars

\* C20 (going online starts a push): when the browser goes online while the
\* local store holds a record whose sync_status is not synced, a push pass
\* starts.
C20_OnlineStartsPush ==
    [][(GoOnline /\ \E k \in 1..Len(store) : Unsynced(store[k])) =>
          \E p \in procs' \ procs : p.kind = "sync"]_vars

\* C21 (going online starts a pull): when the browser goes online while no
\* record of the local store is pending and no handler is awaiting the
\* network, a pull pass starts.
C21_OnlineStartsPull ==
    [][(GoOnline /\ PendingIndices(store) = <<>> /\ procs = {}) =>
          \E p \in procs' : p.stage = "pull"]_vars

\* The push passes in flight.
Pushes == {p \in procs : p.kind = "sync"}

\* C22 (no retry storm): a step after which more push passes are in flight
\* than before is a press of Sync Now while online or the browser going
\* online, and the hook is online after it.
C22_NoRetryStorm ==
    [][Cardinality({q \in procs' : q.kind = "sync"}) > Cardinality(Pushes)
       => /\ (SyncNow /\ isOnline) \/ GoOnline
          /\ isOnline']_vars

\* C22's case: a push pass is awaiting the answer to a record's request.
C22_Witness ==
    \E p \in procs : p.kind = "sync" /\ p.stage = "push" /\ p.pc = "req"

\* C23 (a failed call marks the record error): when the code after an await
\* takes a failed request, the record the request was made for is in the
\* local store with sync_status error after createTask, updateTask or
\* deleteTask has ended, and error in the snapshot a push pass goes on with
\* (which it saves at the end of the batch).
C23_FailureMarksError ==
    [][\A p \in procs :
          /\ CallFailed(p, "create") =>
                 \E k \in 1..Len(store') :
                     store'[k].id = p.ref /\ store'[k].sync_status = "error"
          /\ (CallFailed(p, "update") \/ CallFailed(p, "delete")) =>
                 \E k \in 1..Len(store') :
                     /\ store'[k].id = p.lt[p.ref].id
                     /\ store'[k].sync_status = "error"
          /\ (CallTaken(p) /\ p.resp.out # "ok") =>
                 \E q \in procs' :
                     /\ q.kind = "sync" /\ q.pend = p.pend /\ q.i > p.i
                     /\ q.lt[p.pend[p.i]].sync_status = "error"]_vars

\* C24 (a clean pull mirrors the server): when a pull ends whose select was
\* answered, while every record of the local store is synced, no other
\* handler is awaiting and the remote table is as the select saw it (no
\* operation has got through to it since), the local store holds one synced
\* record for each row of the remote table that is not marked deleted, with
\* the row's id and user data, and nothing else.
C24_CleanPullMirrorsServer ==
    [][\A p \in procs :
          (/\ PullOk(p)
           /\ procs = {p}
           /\ p.resp.data = SelectRows
           /\ \A k \in 1..Len(store) : ~Unsynced(store[k]))
          => /\ \A j \in 1..Len(store') :
                    /\ store'[j].sync_status = "synced"
                    /\ \E n \in 1..Len(server) :
                           /\ ~server[n].is_deleted
                           /\ SameUserData(server[n], store'[j])
             /\ \A n \in 1..Len(server) :
                    ~server[n].is_deleted =>
                        \E j \in 1..Len(store') : store'[j].id = server[n].id
             /\ \A i, j \in 1..Len(store') :
                    store'[i].id = store'[j].id => i = j]_vars

\* C24's case: a push pass that got a soft delete through has ended with its
\* pull, nothing has been edited since, and the local store holds no record
\* of the deleted row.
C24_Witness ==
    /\ procs = {} /\ pushPass = "done" /\ lastSyncKey # NoTime
    /\ \A k \in 1..Len(store) : store[k].sync_status = "synced"
    /\ \E n \in 1..Len(server) :
           /\ server[n].is_deleted
           /\ server[n].updated_at <= lastSyncKey
           /\ \A k \in 1..Len(store) :
                  server[n].id \notin {store[k].id, store[k].server_id}

\* This step is the end of a pull pass of p whose select failed.
PullFailed(p) ==
    /\ p.pc = "resp" /\ p.stage = "pull" /\ p.resp.out # "ok"
    /\ procs' = procs \ {p}

\* C25 (pull failure degrades gracefully): when a pull ends whose select
\* failed, the local store and both copies of the last-sync time are as
\* before, loading is over, and the listing is the records of the local
\* store that are not marked deleted, in the store's order.
C25_PullFailureGraceful ==
    [][\A p \in procs :
          PullFailed(p) =>
              LET shown == {k \in 1..Len(store) : ~store[k].is_deleted}
              IN  /\ store' = store
                  /\ lastSyncTime' = lastSyncTime
                  /\ lastSyncKey' = lastSyncKey
                  /\ ~loading'
                  /\ Len(tasks') = Cardinality(shown)
                  /\ \A j \in 1..Len(tasks') :
                         /\ ~tasks'[j].is_deleted
                         /\ \E k \in shown : SameUserData(store[k], tasks'[j])
                  /\ \A k \in shown :
                         \E j \in 1..Len(tasks') : tasks'[j].id = store[k].id]_vars

\* C25's case: a push pass has ended with a pull that failed (a record marked
\* deleted is still stored, and nothing has been edited since the pass saved
\* its batch); the store holds a record that is not deleted as well, and the
\* listing shows one task.
C25_Witness ==
    /\ ~loading /\ procs = {} /\ pushPass = "done"
    /\ \E i, j \in 1..Len(store) :
           store[i].is_deleted /\ ~store[j].is_deleted
    /\ Len(tasks) = 1

\* C26 (one pull after the batch): a push pass starts to await its closing
\* select only in a step that leaves every record of the batch processed
\* (none pending, the loop past the last one) and the batch saved as the
\* local store; a pass that takes the answer to a record's request goes on as
\* one handler, at a later record or at the closing select; and the step
\* that takes the select's answer ends the pass.
C26_OnePullAfterBatch ==
    [][/\ \A q \in procs' \ procs :
              (q.kind = "sync" /\ q.stage = "pull" /\ q.pc = "req") =>
                  /\ Len(q.pend) >= 1
                  /\ q.i = Len(q.pend) + 1
                  /\ \A n \in 1..Len(q.pend) :
                         q.lt[q.pend[n]].sync_status # "pending"
                  /\ store' = q.lt
                  /\ q.call = [op |-> "select"]
       /\ \A p \in procs :
              CallTaken(p) =>
                  \E q \in procs' :
                      /\ q.kind = "sync" /\ q.pend = p.pend /\ q.pc = "req"
                      /\ \/ q.stage = "push" /\ q.i > p.i /\ q.i <= Len(q.pend)
                         \/ q.stage = "pull"
       /\ \A p \in procs :
              (p.kind = "sync" /\ p.stage = "pull" /\ p.pc = "resp"
               /\ p \notin procs')
              => procs' = procs \ {p}]_vars

\* C26's case: a push pass that made two requests is awaiting its closing
\* select.
C26_Witness ==
    \E p \in procs :
        /\ p.kind = "sync" /\ p.stage = "pull" /\ p.pc = "req"
        /\ Len(p.pend) = 2 /\ Len(server) = 2
        /\ store = p.lt

\* C27 (one call at a time, in store order): a push pass that is in its loop
\* goes through the pending records of the store it loaded in the order they
\* lie there; the one request it has outstanding or answered is the one of
\* the record the loop is at; every record of the batch before that one has been processed, and
\* none from that one on has been touched.
C27_CallsInStoreOrder ==
    \A p \in procs :
        (p.kind = "sync" /\ p.stage = "push") =>
            /\ p.i \in 1..Len(p.pend)
            /\ \A n \in 1..Len(p.pend) : p.pend[n] \in 1..Len(p.lt)
            /\ \A m, n \in 1..Len(p.pend) : m < n => p.pend[m] < p.pend[n]
            /\ \A n \in 1..Len(p.pend) :
                   (p.lt[p.pend[n]].sync_status = "pending") <=> (n >= p.i)
            /\ \A k \in 1..Len(p.lt) :
                   p.lt[k].sync_status = "pending" =>
                       \E n \in 1..Len(p.pend) : p.pend[n] = k
            /\ SyncCall(p.lt[p.pend[p.i]]) # NoCall
            /\ p.pc = "req" => p.call = SyncCall(p.lt[p.pend[p.i]])

\* C27's case: a push pass with two pending records has had the answer to
\* the first one's request and is awaiting the second one's.
C27_Witness ==
    \E p \in procs :
        /\ p.kind = "sync" /\ p.stage = "push" /\ p.pc = "req"
        /\ p.pend = <<1, 2>> /\ p.i = 2
        /\ p.lt[1].sync_status # "pending"
        /\ Len(server) >= 1

\* C28 (last-sync time): a step changes the last-sync time, persisted or
\* observable, only if it is a pull taking a successful answer; such a step
\* sets both to the same value, the time of that step; so the two are equal
\* in every state.
C28_LastSyncOnlyOnPull ==
    [][/\ (lastSyncTime' # lastSyncTime \/ lastSyncKey' # lastSyncKey) =>
              \E p \in procs : PullOk(p)
       /\ (\E p \in procs : PullOk(p)) =>
              /\ lastSyncTime' = lastSyncKey'
              /\ lastSyncKey' = now
       /\ lastSyncTime = lastSyncKey => lastSyncTime' = lastSyncKey']_vars

\* C28's case: a pull has succeeded, the clock has moved on, and a request
\* for a record has failed since that pull (the record is in error), the
\* last-sync time still being the pull's.
C28_Witness ==
    /\ lastSyncKey # NoTime /\ lastSyncTime = lastSyncKey
    /\ lastSyncKey < now
    /\ procs = {}
    /\ \E k \in 1..Len(store) : store[k].sync_status = "error"
====
